---- MODULE Spec2Model ----
(***************************************************************************)
(* Admission control and execution safety of the GLB compression service.  *)
(*                                                                         *)
(* Part I  : RequestQueueManager and createRequestQueueMiddleware          *)
(*           (middleware/requestQueue: src/unnamed/part_002).              *)
(* Part II : KTX2RequestQueue, module health tracking and initKtxModule    *)
(*           (compression/ktx2TextureCompression: src/unnamed/part_001).   *)
(* Part III: analyzeGLB and getOptimalCompressionStrategy                  *)
(*           (src/src/utils/gltfAnalyzer.ts) and the ignoreDraco override  *)
(*           of POST /compress/full (src/unnamed/part_004).                *)
(*                                                                         *)
(* The program runs on a single-threaded event loop: every action below is *)
(* one run-to-completion step (a synchronous call, or a timer / promise    *)
(* callback with the microtasks it triggers).  Timers are modelled as      *)
(* events that may fire at any time while they are armed, which covers     *)
(* every duration of the awaited work.                                     *)
(***************************************************************************)
EXTENDS Integers, Sequences, FiniteSets, TLC

\* ------------------------------------------------------------------ bounds
MaxRequests == 4        \* requests that arrive at the middleware
MaxConcurrentBound == 2 \* policies tried: maxConcurrent in 1..MaxConcurrentBound
MaxQueueSizeBound == 2  \* policies tried: maxQueueSize in 0..MaxQueueSizeBound

Endpoints == {"/compress/full"}
RequestIds == 1..MaxRequests

VARIABLES
    config,             \* RequestQueueManager.config: endpoint -> policy
    queues,             \* RequestQueueManager.queues: endpoint -> FIFO of request ids
    activeRequests,     \* RequestQueueManager.activeRequests: endpoint -> set of ids
    stats,              \* RequestQueueManager.stats: endpoint -> counters
    requestStartTimes,  \* RequestQueueManager.requestStartTimes (the keys)
    req,                \* per request: the middleware invocation handling it
    nextId              \* number of requests that arrived so far + 1

qvars == <<config, queues, activeRequests, stats, requestStartTimes, req, nextId>>

VARIABLES
    ktx,                \* the module handle: "null" or "module"
    ktxInitialized,
    isInitializing,
    initFailureCount,
    sinceInitFailure,   \* (now - lastInitFailureTime) in InitAgeUnits
    consecutiveErrors,
    sinceError,         \* (now - lastErrorTime) in ERROR_RESET_INTERVALs
    queue,              \* KTX2RequestQueue.queue (item ids)
    processing,         \* KTX2RequestQueue.processing
    currentRequests,    \* KTX2RequestQueue.currentRequests
    drainTimers,        \* pending setTimeout(() => this.processQueue(), 0)
    item,               \* per item: "idle", "queued", "pending" (its race is open)
    work,               \* per process: where its compressImageToKTX2Internal /
                        \* initKtxModule call is suspended:
                        \*   "none", "waitInit" (polling isInitializing),
                        \*   "loading" (await ktxModuleCreator),
                        \*   "decoding" (await loadImage, native calls follow)
    reset,              \* per resetKTXModule run: "idle", "scheduled", "sleeping", "init"
    failStreak,         \* history: load attempts failed in a row since the last
                        \* success or counter clear (stops at MAX_INIT_FAILURES)
    breakerLog,         \* history: what the circuit breaker did to the calls made
                        \* since the last load attempt ended: "none", "rejected",
                        \* "retried" (counter cleared after the cooldown) or
                        \* "rejectedThenRetried"
    errorRun,           \* history: failed items in a row, each within
                        \* ERROR_RESET_INTERVAL of the one before; at
                        \* ErrorRunCap the runs are no longer followed
    runResets           \* history: module resets scheduled during that run

kvars == <<ktx, ktxInitialized, isInitializing, initFailureCount, sinceInitFailure,
           consecutiveErrors, sinceError, queue, processing, currentRequests,
           drainTimers, item, work, reset, failStreak, breakerLog,
           errorRun, runResets>>

VARIABLES
    glb,                \* the buffer last handed to analyzeGLB
    analysis,           \* what analyzeGLB did with it
    strategy            \* the strategy last selected from the analysis

avars == <<glb, analysis, strategy>>

vars == <<qvars, kvars, avars>>

\* ------------------------------------------------------------ Part I: state

Policies == [maxConcurrent : 1..MaxConcurrentBound, maxQueueSize : 0..MaxQueueSizeBound]

ZeroStats == [active |-> 0, queued |-> 0, completed |-> 0, failed |-> 0, rejected |-> 0]

\* pc of the middleware invocation:
\*   "idle"       the request has not arrived
\*   "queued"     awaiting enqueueRequest's promise (queue timer armed)
\*   "processing" admitted; request timer armed; awaiting next()
\*   "timedOut"   the request timer fired; still awaiting next()
\*   "done"       the middleware returned
\* via: how enqueueRequest let the request in ("immediate" or "queue")
IdleRequest == [endpoint |-> "", pc |-> "idle", via |-> "none", outcome |-> "none"]

\* the policy of the three-request scenario: one slot, one queue place
ScenarioPolicy == [maxConcurrent |-> 1, maxQueueSize |-> 1]

\* setEndpointConfig has been applied to every endpoint, with any policy
\* within the bounds
InitQ ==
    /\ config \in [Endpoints -> Policies]
    /\ queues = [e \in Endpoints |-> <<>>]
    /\ activeRequests = [e \in Endpoints |-> {}]
    /\ stats = [e \in Endpoints |-> ZeroStats]
    /\ requestStartTimes = {}
    /\ req = [r \in RequestIds |-> IdleRequest]
    /\ nextId = 1

\* ------------------------------------------------- Part I: RequestQueueManager

\* (mutant: admits while the active set is already at the limit)
canProcessImmediately_OffByOne(active, e) ==
    Cardinality(active[e]) <= config[e].maxConcurrent

canProcessImmediately(active, e) ==
    Cardinality(active[e]) < config[e].maxConcurrent

\* (mutant: lets one entry too many into the queue)
QueueIsFull_OffByOne(e) ==
    Len(queues[e]) > config[e].maxQueueSize

\* enqueueRequest's capacity check: currentQueue.length >= config.maxQueueSize
QueueIsFull(e) ==
    Len(queues[e]) >= config[e].maxQueueSize

\* (mutant: pops the most recent entry)
QueueShift_Last(q) == [entry |-> q[Len(q)], rest |-> SubSeq(q, 1, Len(q) - 1)]

\* queue.shift(): the entry taken and what remains
QueueShift(q) == [entry |-> Head(q), rest |-> Tail(q)]

\* (mutant: drops the head of the queue whatever the id)
removeFromQueue_Head(q, r) == Tail(q)

\* queue.splice(findIndex(id), 1)
removeFromQueue(q, r) == SelectSeq(q, LAMBDA x : x # r)

\* (mutant: the rejection is not counted)
RejectedIncrement_Skip(s) == s

\* stats.rejected++
RejectedIncrement(s) == [s EXCEPT !.rejected = @ + 1]

\* (mutant: pops without looking at the capacity)
processNextInQueueGuard_NoCapacity(active, e) ==
    queues[e] # <<>>

\* (mutant: completeRequest does not look at the queue)
processNextInQueueGuard_Never(active, e) == FALSE

\* processNextInQueue's two early returns
processNextInQueueGuard(active, e) ==
    canProcessImmediately(active, e) /\ queues[e] # <<>>

\* (mutant: the request stays in the active set)
ActiveDelete_Keep(active, e, r) == active

\* completeRequest: activeSet.delete(requestId)
ActiveDelete(active, e, r) == [active EXCEPT ![e] = @ \ {r}]

\* (mutant: the metrics are updated whether or not a start stamp is found)
StartStampPresent_Always(r) == TRUE

\* completeRequest: const startTime = requestStartTimes.get(requestId); if (startTime)
StartStampPresent(r) == r \in requestStartTimes

\* startProcessing: add to the active set, refresh stats.active, stamp the start
startProcessing(e, r) ==
    /\ activeRequests' = [activeRequests EXCEPT ![e] = @ \cup {r}]
    /\ stats' = [stats EXCEPT ![e].active = Cardinality(activeRequests[e] \cup {r})]
    /\ requestStartTimes' = requestStartTimes \cup {r}

\* enqueueRequest, called by the middleware for a newly arrived request
enqueueRequest(e, r) ==
    IF canProcessImmediately(activeRequests, e)
    THEN /\ startProcessing(e, r)
         /\ req' = [req EXCEPT ![r] = [endpoint |-> e, pc |-> "processing", via |-> "immediate",
                                            outcome |-> "none"]]
         /\ UNCHANGED queues
    ELSE IF QueueIsFull(e)
    THEN /\ stats' = [stats EXCEPT ![e] = RejectedIncrement(@)]
         /\ req' = [req EXCEPT ![r] = [endpoint |-> e, pc |-> "done", via |-> "none",
                                            outcome |-> "QueueFull"]]
         /\ UNCHANGED <<queues, activeRequests, requestStartTimes>>
    ELSE /\ queues' = [queues EXCEPT ![e] = Append(@, r)]
         /\ stats' = [stats EXCEPT ![e].queued = Len(queues[e]) + 1]
         /\ req' = [req EXCEPT ![r] = [endpoint |-> e, pc |-> "queued", via |-> "none",
                                            outcome |-> "none"]]
         /\ UNCHANGED <<activeRequests, requestStartTimes>>

\* completeRequest followed by the processNextInQueue it ends with.
\* newPc/newOutcome: where the middleware invocation of r goes.
completeRequest(e, r, success, newPc, newOutcome) ==
    LET act1 == ActiveDelete(activeRequests, e, r)
        counted == StartStampPresent(r)
        st1 == [stats[e] EXCEPT
                  !.active = Cardinality(act1[e]),
                  !.completed = IF counted /\ success THEN @ + 1 ELSE @,
                  !.failed = IF counted /\ ~success THEN @ + 1 ELSE @]
        starts1 == requestStartTimes \ {r}
        pop == processNextInQueueGuard(act1, e)
        nextRequest == QueueShift(queues[e]).entry
        rest == QueueShift(queues[e]).rest
        act2 == [act1 EXCEPT ![e] = @ \cup {nextRequest}]
        req1 == [req EXCEPT ![r].pc = newPc, ![r].outcome = newOutcome]
    IN  IF pop
        THEN /\ queues' = [queues EXCEPT ![e] = rest]
             /\ activeRequests' = act2
             /\ stats' = [stats EXCEPT ![e] =
                            [st1 EXCEPT !.queued = Len(rest),
                                        !.active = Cardinality(act2[e])]]
             /\ requestStartTimes' = starts1 \cup {nextRequest}
             /\ req' = [req1 EXCEPT ![nextRequest].pc = "processing",
                                      ![nextRequest].via = "queue"]
        ELSE /\ queues' = queues
             /\ activeRequests' = act1
             /\ stats' = [stats EXCEPT ![e] = st1]
             /\ requestStartTimes' = starts1
             /\ req' = req1

\* ------------------------------------------- Part I: middleware and timers

\* A request arrives: the middleware calls enqueueRequest
Arrive(e) ==
    /\ nextId <= MaxRequests
    /\ enqueueRequest(e, nextId)
    /\ nextId' = nextId + 1
    /\ UNCHANGED <<config, kvars, avars>>

\* (mutant: processNextInQueue does not clear the timer of the entry it pops)
QueueTimerArmed_NotCleared(r) ==
    \/ req[r].pc = "queued"
    \/ req[r].pc = "processing" /\ req[r].via = "queue"

\* the queue timer of a request is armed from the moment its entry is
\* created until processNextInQueue clears it or it fires
QueueTimerArmed(r) ==
    req[r].pc = "queued"

\* The queueTimeout timer of a queued request fires
QueueTimeout(r) ==
    /\ QueueTimerArmed(r)
    /\ LET e == req[r].endpoint
           q1 == removeFromQueue(queues[e], r)
       IN /\ queues' = [queues EXCEPT ![e] = q1]
          /\ stats' = [stats EXCEPT ![e] =
                         RejectedIncrement([@ EXCEPT !.queued = Len(q1)])]
          /\ req' = [req EXCEPT ![r].pc = "done", ![r].outcome = "QueueTimeout"]
    /\ UNCHANGED <<config, activeRequests, requestStartTimes, nextId, kvars, avars>>

\* The requestTimeout timer fires while next() is still pending
RequestTimeout(r) ==
    /\ req[r].pc = "processing"
    /\ completeRequest(req[r].endpoint, r, FALSE, "timedOut", "none")
    /\ UNCHANGED <<config, nextId, kvars, avars>>

\* next() settles: the handler finished (success) or threw (~success)
HandlerDone(r, success) ==
    /\ req[r].pc \in {"processing", "timedOut"}
    /\ completeRequest(req[r].endpoint, r, success, "done",
                       IF success THEN "response" ELSE "handlerError")
    /\ UNCHANGED <<config, nextId, kvars, avars>>

NextQ ==
    \/ \E e \in Endpoints : Arrive(e)
    \/ \E r \in RequestIds : QueueTimeout(r)
    \/ \E r \in RequestIds : RequestTimeout(r)
    \/ \E r \in RequestIds, success \in BOOLEAN : HandlerDone(r, success)

\* configureEndpoint(endpoint, config): the policy of a known endpoint is
\* replaced; its queue, active set and stats are left as they are
configureEndpoint(e, p) ==
    /\ config' = [config EXCEPT ![e] = p]
    /\ UNCHANGED <<queues, activeRequests, stats, requestStartTimes, req, nextId,
                   kvars, avars>>

\* resetQueueStats(): every counter of every endpoint is set to zero
resetStats ==
    /\ stats' = [e \in Endpoints |-> ZeroStats]
    /\ UNCHANGED <<config, queues, activeRequests, requestStartTimes, req, nextId,
                   kvars, avars>>

\* the middleware next to an operator who changes the policy while it runs
NextConfig ==
    \/ \E e \in Endpoints : Arrive(e)
    \/ \E r \in RequestIds : QueueTimeout(r)
    \/ \E r \in RequestIds : RequestTimeout(r)
    \/ \E r \in RequestIds, success \in BOOLEAN : HandlerDone(r, success)
    \/ \E e \in Endpoints, p \in Policies : configureEndpoint(e, p)

\* the same, and the statistics may be reset at any time
NextAdmin ==
    \/ \E e \in Endpoints : Arrive(e)
    \/ \E r \in RequestIds : QueueTimeout(r)
    \/ \E r \in RequestIds : RequestTimeout(r)
    \/ \E r \in RequestIds, success \in BOOLEAN : HandlerDone(r, success)
    \/ \E e \in Endpoints, p \in Policies : configureEndpoint(e, p)
    \/ resetStats


\* =====================================================================
\* Part II: KTX2RequestQueue, module health, initKtxModule, resetKTXModule
\* =====================================================================

MaxItems == 2           \* callers of compressImageToKTX2 (requestQueue.add) at a time
MaxDrainTimers == 1     \* processQueue timers of the drain loop pending at a time
MaxGlbCallers == 1      \* compressGLBTexturesKTX2 calls running at a time

KtxMaxConcurrent == 1               \* KTX2RequestQueue.maxConcurrent
MAX_CONSECUTIVE_ERRORS == 3
ERROR_RESET_INTERVAL == 60000
MAX_INIT_FAILURES == 5
INIT_FAILURE_COOLDOWN == 300000

\* The two timestamps are kept as ages, each counted in the interval it is
\* compared with: sinceError = (now - lastErrorTime) in ERROR_RESET_INTERVALs
\* (0: less, 1: exactly one, 2: more), sinceInitFailure =
\* (now - lastInitFailureTime) in InitAgeUnits, of which CooldownSteps make
\* one INIT_FAILURE_COOLDOWN (so that a refreshed timestamp differs from an
\* old one inside the cooldown).  An age stops growing once the comparison
\* can no longer change.
CooldownSteps == 2
InitAgeUnit == INIT_FAILURE_COOLDOWN \div CooldownSteps
MaxErrorAge == (ERROR_RESET_INTERVAL \div ERROR_RESET_INTERVAL) + 1
MaxInitFailureAge == INIT_FAILURE_COOLDOWN \div InitAgeUnit

\* the run of failed items is followed over two thresholds
ErrorRunCap == 2 * MAX_CONSECUTIVE_ERRORS

\* the processes that call into the module: the items submitted through
\* compressImageToKTX2, the compressGLBTexturesKTX2 calls, one resetKTXModule run
Items == 1..MaxItems
GlbCallers == (MaxItems + 1)..(MaxItems + MaxGlbCallers)
Resetters == {MaxItems + MaxGlbCallers + 1}
Procs == Items \cup GlbCallers \cup Resetters


\* the Part II state as one record; ret and full are transient:
\*   ret   how the call just modelled left: "return", "throw" or "suspend"
\*   full  a timer had to be set beyond the bounds (no Resetter idle, or
\*         MaxDrainTimers processQueue timers pending already)
K == [ktx |-> ktx, ktxInitialized |-> ktxInitialized, isInitializing |-> isInitializing,
      initFailureCount |-> initFailureCount, sinceInitFailure |-> sinceInitFailure,
      consecutiveErrors |-> consecutiveErrors, sinceError |-> sinceError,
      queue |-> queue, processing |-> processing, currentRequests |-> currentRequests,
      drainTimers |-> drainTimers, item |-> item, work |-> work, reset |-> reset,
      failStreak |-> failStreak, breakerLog |-> breakerLog,
      errorRun |-> errorRun, runResets |-> runResets,
      ret |-> "suspend", full |-> FALSE]

SetK(s) ==
    /\ ~s.full
    /\ ktx' = s.ktx
    /\ ktxInitialized' = s.ktxInitialized
    /\ isInitializing' = s.isInitializing
    /\ initFailureCount' = s.initFailureCount
    /\ sinceInitFailure' = s.sinceInitFailure
    /\ consecutiveErrors' = s.consecutiveErrors
    /\ sinceError' = s.sinceError
    /\ queue' = s.queue
    /\ processing' = s.processing
    /\ currentRequests' = s.currentRequests
    /\ drainTimers' = s.drainTimers
    /\ item' = s.item
    /\ work' = s.work
    /\ reset' = s.reset
    /\ failStreak' = s.failStreak
    /\ breakerLog' = s.breakerLog
    /\ errorRun' = s.errorRun
    /\ runResets' = s.runResets
    /\ UNCHANGED <<qvars, avars>>

InitK ==
    /\ ktx = "null"
    /\ ktxInitialized = FALSE
    /\ isInitializing = FALSE
    /\ initFailureCount = 0
    /\ sinceInitFailure = MaxInitFailureAge
    /\ consecutiveErrors = 0
    /\ sinceError = MaxErrorAge
    /\ queue = <<>>
    /\ processing = FALSE
    /\ currentRequests = 0
    /\ drainTimers = 0
    /\ item = [i \in Items |-> "idle"]
    /\ work = [p \in Procs |-> "none"]
    /\ reset = [r \in Resetters |-> "idle"]
    /\ failStreak = 0
    /\ breakerLog = "none"
    /\ runResets = 0

\* ------------------------------------------------ Part II: module health

Ready(s) == s.ktxInitialized /\ s.ktx # "null"

\* now - lastInitFailureTime < INIT_FAILURE_COOLDOWN
\* (mutant: the breaker lets calls through during the cooldown and turns
\* them away after it)
InCooldown_Flipped(s) == s.sinceInitFailure * InitAgeUnit >= INIT_FAILURE_COOLDOWN

InCooldown(s) == s.sinceInitFailure * InitAgeUnit < INIT_FAILURE_COOLDOWN

\* (mutant: the rejected call stamps the time of the rejection)
BreakerRejection_Refreshing(s) ==
    [s EXCEPT !.ret = "throw", !.breakerLog = "rejected", !.sinceInitFailure = 0]

\* throw new Error('... circuit breaker active ...')
BreakerRejection(s) == [s EXCEPT !.ret = "throw", !.breakerLog = "rejected"]

\* initKtxModule from its entry to its first await (or its return / throw),
\* called by process p
initKtxModule(s, p) ==
    IF Ready(s)
    THEN [s EXCEPT !.ret = "return"]
    ELSE IF s.initFailureCount >= MAX_INIT_FAILURES /\ InCooldown(s)
    THEN BreakerRejection(s)
    ELSE LET s1 == IF s.initFailureCount >= MAX_INIT_FAILURES
                   THEN [s EXCEPT !.initFailureCount = 0, !.failStreak = 0,
                                  !.breakerLog = IF @ = "rejected"
                                                 THEN "rejectedThenRetried"
                                                 ELSE "retried"]
                   ELSE s
         IN IF s1.isInitializing
            THEN [s1 EXCEPT !.work[p] = "waitInit", !.ret = "suspend"]
            ELSE [s1 EXCEPT !.isInitializing = TRUE, !.work[p] = "loading",
                            !.ret = "suspend"]

\* resetKTXModule up to its await of the one-second delay
resetKTXModuleClear(s) ==
    [s EXCEPT !.ktx = "null", !.ktxInitialized = FALSE, !.isInitializing = FALSE]

\* setTimeout(() => resetKTXModule()...): takes an idle Resetter
ScheduleReset(s) ==
    IF \E r \in Resetters : s.reset[r] = "idle"
    THEN LET r == CHOOSE x \in Resetters : s.reset[x] = "idle"
         IN [s EXCEPT !.reset[r] = "scheduled"]
    ELSE [s EXCEPT !.full = TRUE]

\* (mutant: the counter is left at the threshold)
CounterAfterThreshold_Kept(c) == c

\* consecutiveErrors = 0; // Reset counter to prevent multiple resets
CounterAfterThreshold(c) == 0

\* (mutant: the age of the last error is not looked at)
ErrorIsStale_Never(s) == FALSE

\* now - lastErrorTime > ERROR_RESET_INTERVAL
ErrorIsStale(s) == s.sinceError * ERROR_RESET_INTERVAL > ERROR_RESET_INTERVAL

handleCompressionError(s) ==
    LET stale == ErrorIsStale(s)
        c0 == IF stale THEN 0 ELSE s.consecutiveErrors
        c1 == c0 + 1
        followed == s.errorRun < ErrorRunCap
        run == IF ~followed THEN s.errorRun ELSE IF stale THEN 1 ELSE s.errorRun + 1
        s1 == [s EXCEPT !.consecutiveErrors = c1, !.sinceError = 0,
                        !.errorRun = run,
                        !.runResets = IF followed /\ stale THEN 0 ELSE @]
    IN IF c1 >= MAX_CONSECUTIVE_ERRORS
       THEN ScheduleReset([s1 EXCEPT !.consecutiveErrors = CounterAfterThreshold(@),
                                     !.runResets = IF followed THEN @ + 1 ELSE @])
       ELSE s1

\* ------------------------------------------------ Part II: KTX2RequestQueue

\* (mutant: the finally block does not wake the drain loop)
ScheduleDrain_Never(s) == s

\* processQueue's finally: if (this.queue.length > 0) setTimeout(processQueue, 0)
ScheduleDrain(s) ==
    IF Len(s.queue) > 0
    THEN [s EXCEPT !.drainTimers = @ + 1, !.full = @ \/ s.drainTimers >= MaxDrainTimers]
    ELSE s

\* processQueue after the race of item i settled: the try / catch / finally
Settle(s, i, ok) ==
    LET s1 == IF ok THEN [s EXCEPT !.consecutiveErrors = 0,
                                   !.errorRun = IF @ < ErrorRunCap THEN 0 ELSE @,
                                   !.runResets = IF s.errorRun < ErrorRunCap THEN 0 ELSE @]
                    ELSE handleCompressionError(s)
        s2 == [s1 EXCEPT !.item[i] = "idle",
                         !.currentRequests = @ - 1,
                         !.processing = FALSE]
    IN ScheduleDrain(s2)

\* compressImageToKTX2Internal from its entry to its first suspension
compressImageToKTX2Internal(s, p) ==
    LET s1 == initKtxModule(s, p)
    IN IF s1.ret = "return"
       THEN [s1 EXCEPT !.work[p] = "decoding", !.ret = "suspend"]
       ELSE s1

\* (mutant: the most recent item is taken)
RequestShift_Last(q) == [entry |-> q[Len(q)], rest |-> SubSeq(q, 1, Len(q) - 1)]

\* this.queue.shift(): the item taken and what remains
RequestShift(q) == [entry |-> Head(q), rest |-> Tail(q)]

\* processQueue from its entry to its await of processRequest
processQueue(s) ==
    IF s.processing \/ s.currentRequests >= KtxMaxConcurrent \/ s.queue = <<>>
    THEN s
    ELSE LET i == RequestShift(s.queue).entry
             s1 == [s EXCEPT !.queue = RequestShift(@).rest, !.processing = TRUE,
                             !.currentRequests = @ + 1, !.item[i] = "pending"]
             s2 == compressImageToKTX2Internal(s1, i)
         IN IF s2.ret = "throw" THEN Settle(s2, i, FALSE) ELSE s2

\* initKtxModule returned normally to process p
InitReturned(s, p) ==
    IF p \in Resetters
    THEN [s EXCEPT !.work[p] = "none", !.reset[p] = "idle"]
    ELSE [s EXCEPT !.work[p] = "decoding"]

\* the call of process p ended (ok: it returned a result; ~ok: it threw)
CallEnded(s, p, ok) ==
    LET s1 == [s EXCEPT !.work[p] = "none"]
    IN IF p \in Resetters THEN [s1 EXCEPT !.reset[p] = "idle"]
       ELSE IF p \in Items /\ s1.item[p] = "pending" THEN Settle(s1, p, ok)
       ELSE s1

\* -------------------------------------------------------- Part II: actions

\* compressImageToKTX2: requestQueue.add pushes and calls processQueue
Add(i) ==
    /\ item[i] = "idle" /\ work[i] = "none"
    /\ SetK(processQueue([K EXCEPT !.queue = Append(@, i), !.item[i] = "queued"]))

\* the setTimeout(..., 0) of processQueue's finally fires
DrainTimer ==
    /\ drainTimers > 0
    /\ SetK(processQueue([K EXCEPT !.drainTimers = @ - 1]))

\* the 30 s timer of processRequest fires while the race is open
ItemTimeout(i) ==
    /\ item[i] = "pending"
    /\ SetK(Settle(K, i, FALSE))

\* compressGLBTexturesKTX2 calls compressImageToKTX2Internal for a texture
GlbInvoke(g) ==
    /\ work[g] = "none"
    /\ SetK(compressImageToKTX2Internal(K, g))

\* (mutant: the caller does not wait for the flag)
WaitOver_Always(s) == TRUE

\* while (isInitializing) { await 100 ms } is left
WaitOver(s) == ~s.isInitializing

\* a process polling "while (isInitializing)" finds the flag down
PollWake(p) ==
    /\ work[p] = "waitInit"
    /\ WaitOver(K)
    /\ SetK(IF Ready(K) THEN InitReturned(K, p) ELSE CallEnded(K, p, FALSE))

\* ktxModuleCreator resolved and the module passed validation
LoadSucceed(p) ==
    /\ work[p] = "loading"
    /\ SetK(InitReturned([K EXCEPT !.ktx = "module", !.ktxInitialized = TRUE,
                                   !.isInitializing = FALSE, !.failStreak = 0,
                                   !.breakerLog = "none"], p))

\* (mutant: the catch block leaves the flag as it is)
FlagAfterFailure_Kept(flag) == flag

\* catch: ktxInitialized = false
FlagAfterFailure(flag) == FALSE

\* ktxModuleCreator rejected, or the module failed validation
LoadFail(p) ==
    /\ work[p] = "loading"
    /\ SetK(CallEnded([K EXCEPT !.ktx = "null",
                                !.ktxInitialized = FlagAfterFailure(@),
                                !.initFailureCount = @ + 1,
                                !.sinceInitFailure = 0,
                                !.isInitializing = FALSE,
                                !.failStreak = IF @ < MAX_INIT_FAILURES THEN @ + 1 ELSE @,
                                !.breakerLog = "none"],
                      p, FALSE))

\* loadImage settled and the synchronous native calls ran
DecodeFinish(p, ok) ==
    /\ work[p] = "decoding"
    /\ SetK(CallEnded(K, p, ok /\ ktx # "null"))

\* the scheduled resetKTXModule starts
ResetFire(r) ==
    /\ reset[r] = "scheduled"
    /\ SetK([resetKTXModuleClear(K) EXCEPT !.reset[r] = "sleeping"])

\* resetKTXModule's one-second delay is over: it calls initKtxModule
ResetWake(r) ==
    /\ reset[r] = "sleeping"
    /\ LET s1 == initKtxModule([K EXCEPT !.reset[r] = "init"], r)
       IN SetK(IF s1.ret = "suspend" THEN s1 ELSE [s1 EXCEPT !.reset[r] = "idle"])

\* time passes: the last error gets one ERROR_RESET_INTERVAL older
TickError ==
    /\ sinceError < MaxErrorAge
    /\ SetK([K EXCEPT !.sinceError = @ + 1])

\* time passes: the last initialization failure gets one InitAgeUnit older
\* (followed while the counter is at the threshold: lastInitFailureTime is
\* read nowhere else, and the failure that brings the counter there stamps it)
TickInitFailure ==
    /\ initFailureCount >= MAX_INIT_FAILURES
    /\ sinceInitFailure < MaxInitFailureAge
    /\ SetK([K EXCEPT !.sinceInitFailure = @ + 1])

NextK ==
    \/ \E i \in Items : Add(i)
    \/ DrainTimer
    \/ \E i \in Items : ItemTimeout(i)
    \/ \E g \in GlbCallers : GlbInvoke(g)
    \/ \E p \in Procs : PollWake(p)
    \/ \E p \in Procs : LoadSucceed(p)
    \/ \E p \in Procs : LoadFail(p)
    \/ \E p \in Procs, ok \in BOOLEAN : DecodeFinish(p, ok)
    \/ \E r \in Resetters : ResetFire(r)
    \/ \E r \in Resetters : ResetWake(r)
    \/ TickError
    \/ TickInitFailure

\* =====================================================================
\* Part III: analyzeGLB, getOptimalCompressionStrategy, ignoreDraco override
\* =====================================================================

MaxMeshes == 2          \* entries of gltf.meshes
MaxTextures == 1        \* entries of gltf.textures

GLB_MAGIC == 1179937895             \* 0x46546C67
GLB_VERSION == 2
GLB_CHUNK_TYPE_JSON == 1313821514   \* 0x4E4F534A
GLB_CHUNK_TYPE_BIN == 5130562       \* 0x004E4942

HeaderBytes == 12       \* magic, version, length
WordBytes == 4                      \* what getUint32 reads
ChunkHeaderBytes == 2 * WordBytes   \* chunkLength, chunkType

DRACO == "KHR_draco_mesh_compression"
BASISU == "KHR_texture_basisu"

\* what a JavaScript expression yields when the property is missing
Undefined == -1

\* --- the JSON carried by the first chunk ---------------------------------
\* a value that may be an array of extension names: the property is absent,
\* is an array, or is some other truthy value (a string, a number, an object)
AbsentDecl == [kind |-> "absent", names |-> {}]
EmptyArray == [kind |-> "array", names |-> {}]
NonArray == [kind |-> "nonArray", names |-> {}]
Decls ==
    {AbsentDecl, NonArray}
        \cup {[kind |-> "array", names |-> n] : n \in {{}, {DRACO}, {BASISU}}}

\* a primitive: null, an object without extensions, an object whose
\* extensions carry the Draco key with an object ("draco") or with null
\* ("dracoNull") as its value
Primitives == {"null", "plain", "draco", "dracoNull"}

\* mesh.primitives: absent, a number, or an array of primitives
PrimitiveLists ==
    {<<>>} \cup {<<x>> : x \in Primitives} \cup {<<"plain", "draco">>}

NullMesh == [kind |-> "null", primitives |-> "absent", items |-> <<>>]

MeshEntries ==
    {NullMesh,
     [kind |-> "object", primitives |-> "absent", items |-> <<>>],
     [kind |-> "object", primitives |-> "number", items |-> <<>>]}
        \cup {[kind |-> "object", primitives |-> "array", items |-> l] :
                 l \in PrimitiveLists}

\* gltf.meshes: absent, a number, or an array of mesh entries
MeshLists == UNION {[1..n -> MeshEntries] : n \in 0..MaxMeshes}

MeshValues ==
    {[kind |-> "absent", entries |-> <<>>], [kind |-> "number", entries |-> <<>>]}
        \cup {[kind |-> "array", entries |-> l] : l \in MeshLists}

\* gltf.textures / gltf.nodes / gltf.animations: absent (Undefined) or an
\* array of that length
Objects ==
    [kind : {"object"}, extensionsUsed : Decls,
     extensionsRequired : {AbsentDecl, NonArray, [kind |-> "array", names |-> {DRACO}]},
     meshes : MeshValues, textures : {Undefined} \cup 0..MaxTextures,
     nodes : {Undefined, 1}, animations : {Undefined, 1}]

EmptyObject ==
    [kind |-> "object", extensionsUsed |-> AbsentDecl, extensionsRequired |-> AbsentDecl,
     meshes |-> [kind |-> "absent", entries |-> <<>>], textures |-> Undefined,
     nodes |-> Undefined, animations |-> Undefined]

\* what the bytes of the chunk decode to: text that is not JSON, the JSON
\* null, a JSON number other than 0 (or true, or a non-empty string: truthy,
\* without properties), the JSON 0 (or false, or "": falsy), or a JSON object
Garbage == [EmptyObject EXCEPT !.kind = "garbage"]
JsonNull == [EmptyObject EXCEPT !.kind = "null"]
JsonNumber == [EmptyObject EXCEPT !.kind = "number"]
JsonZero == [EmptyObject EXCEPT !.kind = "zero"]

\* a scene with a mesh, a texture, a node and an animation
SampleScene ==
    [EmptyObject EXCEPT
        !.meshes = [kind |-> "array",
                    entries |-> <<[kind |-> "object", primitives |-> "array",
                                   items |-> <<"plain">>]>>],
        !.textures = 1, !.nodes = 1, !.animations = 1]

\* --- the buffer -----------------------------------------------------------
\* size: buffer.byteLength; magic, version, length, chunkLength, chunkType:
\* the little-endian words at offsets 0, 4, 8, 12, 16 (meaningful when the
\* buffer is long enough to hold them); payload: what the chunkLength bytes
\* after the chunk header decode to (an empty chunk is not JSON)
BufferSizes == {0, 3, 4, 8, 12, 16, 19, 20, 24, 28}
ChunkLengths == {0, 4, 8, 12}

HeaderInputs ==
    {b \in [size : BufferSizes, magic : {GLB_MAGIC, GLB_CHUNK_TYPE_JSON},
            version : {1, GLB_VERSION}, length : BufferSizes,
            chunkLength : ChunkLengths,
            chunkType : {GLB_CHUNK_TYPE_JSON, GLB_CHUNK_TYPE_BIN},
            payload : {Garbage, JsonNull, SampleScene}] :
        /\ b.length \in {b.size, 24}
        /\ b.chunkLength = 0 => b.payload = Garbage}

WellFramed(payload) ==
    [size |-> 28, magic |-> GLB_MAGIC, version |-> GLB_VERSION, length |-> 28,
     chunkLength |-> 8, chunkType |-> GLB_CHUNK_TYPE_JSON, payload |-> payload]

Inputs ==
    HeaderInputs \cup {WellFramed(g) : g \in Objects \cup {JsonNumber, JsonZero}}

NoBuffer == [WellFramed(EmptyObject) EXCEPT !.size = Undefined]

\* view.getUint32(offset, true) throws a RangeError past the end of the buffer
CanRead(b, offset) == offset + WordBytes <= b.size

\* (mutant: the length field of the header is not compared)
LengthMatches_Unchecked(b) == TRUE

\* length !== buffer.byteLength
LengthMatches(b) == b.length = b.size

\* parseGLBToJSON: the parsed JSON, or null (JsonNull) on any mismatch or
\* exception (RangeError of the reads or of the Uint8Array view, SyntaxError
\* of JSON.parse)
parseGLBToJSON(b) ==
    IF ~CanRead(b, 0) THEN JsonNull
    ELSE IF b.magic # GLB_MAGIC THEN JsonNull
    ELSE IF ~CanRead(b, WordBytes) THEN JsonNull
    ELSE IF b.version # GLB_VERSION THEN JsonNull
    ELSE IF ~CanRead(b, 2 * WordBytes) THEN JsonNull
    ELSE IF ~LengthMatches(b) THEN JsonNull
    ELSE IF ~CanRead(b, HeaderBytes) THEN JsonNull
    ELSE IF ~CanRead(b, HeaderBytes + WordBytes) THEN JsonNull
    ELSE IF b.chunkType # GLB_CHUNK_TYPE_JSON THEN JsonNull
    ELSE IF HeaderBytes + ChunkHeaderBytes + b.chunkLength > b.size THEN JsonNull
    ELSE IF b.payload.kind = "garbage" THEN JsonNull
    ELSE b.payload

\* --- analyzeGLB -------------------------------------------------------------
NoAnalysis ==
    [status |-> "none", isValid |-> FALSE, hasTextures |-> FALSE,
     hasDracoCompression |-> FALSE, hasMeshes |-> FALSE, hasAnimations |-> "false",
     extensionsUsed |-> EmptyArray, extensionsRequired |-> EmptyArray,
     textureCount |-> 0, meshCount |-> 0, nodeCount |-> 0, fileSize |-> 0]

\* the value returned when parseGLBToJSON gave null
InvalidAnalysis(b) == [NoAnalysis EXCEPT !.status = "returned", !.fileSize = b.size]

\* analyzeGLB left with an exception
Thrown(b) == [NoAnalysis EXCEPT !.status = "threw", !.fileSize = b.size]

\* the loop over mesh.primitives from index k: "found", "none" (end of the
\* array reached) or "throw" (primitive.extensions of null)
RECURSIVE ScanPrimitives(_, _)
ScanPrimitives(items, k) ==
    IF k > Len(items) THEN "none"
    ELSE IF items[k] = "null" THEN "throw"
    ELSE IF items[k] = "draco" THEN "found"
    ELSE ScanPrimitives(items, k + 1)

\* the loop over gltf.meshes from index k
RECURSIVE ScanMeshes(_, _)
ScanMeshes(entries, k) ==
    IF k > Len(entries) THEN "none"
    ELSE LET mesh == entries[k]
             inner == IF mesh.primitives = "absent" THEN "none"
                      ELSE IF mesh.primitives = "number" THEN "throw"
                      ELSE ScanPrimitives(mesh.items, 1)
         IN IF mesh.kind = "null" THEN "throw"
            ELSE IF inner = "none" THEN ScanMeshes(entries, k + 1)
            ELSE inner

\* gltf.x || []
OrEmptyArray(d) == IF d.kind = "absent" THEN EmptyArray ELSE d

\* (mutant: the list is not searched)
Includes_Never(d, name) == FALSE

\* Array.isArray(d) && d.includes(name)
Includes(d, name) == d.kind = "array" /\ name \in d.names

analyzeGLB(b) ==
    LET gltf == parseGLBToJSON(b)
        extensionsUsed == OrEmptyArray(gltf.extensionsUsed)
        extensionsRequired == OrEmptyArray(gltf.extensionsRequired)
        declared == Includes(extensionsUsed, DRACO) \/ Includes(extensionsRequired, DRACO)
        scan == IF declared \/ gltf.meshes.kind = "absent" THEN "none"
                ELSE IF gltf.meshes.kind = "number" THEN "throw"
                ELSE ScanMeshes(gltf.meshes.entries, 1)
        textureCount == IF gltf.textures = Undefined THEN 0 ELSE gltf.textures
        meshCount == IF gltf.meshes.kind = "absent" THEN 0
                     ELSE IF gltf.meshes.kind = "number" THEN Undefined
                     ELSE Len(gltf.meshes.entries)
        nodeCount == IF gltf.nodes = Undefined THEN 0 ELSE gltf.nodes
        hasAnimations == IF gltf.animations = Undefined THEN "undefined"
                         ELSE IF gltf.animations > 0 THEN "true" ELSE "false"
    IN IF gltf.kind \in {"null", "zero"} THEN InvalidAnalysis(b)
       ELSE IF scan = "throw" THEN Thrown(b)
       ELSE IF extensionsUsed.kind # "array" \/ extensionsRequired.kind # "array"
       THEN Thrown(b)
       ELSE [status |-> "returned", isValid |-> TRUE,
             hasTextures |-> textureCount > 0,
             hasDracoCompression |-> declared \/ scan = "found",
             hasMeshes |-> meshCount > 0,
             hasAnimations |-> hasAnimations,
             extensionsUsed |-> extensionsUsed,
             extensionsRequired |-> extensionsRequired,
             textureCount |-> textureCount, meshCount |-> meshCount,
             nodeCount |-> nodeCount, fileSize |-> b.size]

\* --- strategy selection ---------------------------------------------------
NoStrategy ==
    [status |-> "none", shouldCompressMesh |-> FALSE, shouldCompressTextures |-> FALSE,
     recommendedEndpoint |-> "", ignoreDraco |-> FALSE]

StrategyOf(mesh, textures, endpoint) ==
    [NoStrategy EXCEPT !.status = "selected", !.shouldCompressMesh = mesh,
                       !.shouldCompressTextures = textures,
                       !.recommendedEndpoint = endpoint]

getOptimalCompressionStrategy(a) ==
    IF ~a.isValid THEN StrategyOf(FALSE, FALSE, "/compress/full")
    ELSE IF a.hasDracoCompression /\ a.hasTextures
    THEN StrategyOf(FALSE, TRUE, "/compress/textures")
    ELSE IF a.hasDracoCompression /\ ~a.hasTextures
    THEN StrategyOf(FALSE, FALSE, "/compress/full")
    ELSE IF a.hasMeshes /\ a.hasTextures THEN StrategyOf(TRUE, TRUE, "/compress/full")
    ELSE IF a.hasMeshes /\ ~a.hasTextures THEN StrategyOf(TRUE, FALSE, "/compress/mesh")
    ELSE IF ~a.hasMeshes /\ a.hasTextures
    THEN StrategyOf(FALSE, TRUE, "/compress/textures")
    ELSE StrategyOf(FALSE, FALSE, "/compress/full")

\* (mutant: ignoreDraco=true changes nothing)
ForcedStrategy_Ignored(a) == getOptimalCompressionStrategy(a)

\* POST /compress/full with ignoreDraco=true: the strategy is replaced
ForcedStrategy(a) == StrategyOf(a.hasMeshes, a.hasTextures, "/compress/full")

\* the GLBAnalysis values getOptimalCompressionStrategy can be called with
Analyses ==
    {[NoAnalysis EXCEPT !.status = "returned", !.isValid = v,
                        !.hasDracoCompression = d, !.hasMeshes = m, !.hasTextures = t] :
        v, d, m, t \in BOOLEAN}

InitA ==
    /\ glb = NoBuffer
    /\ analysis = NoAnalysis
    /\ strategy = NoStrategy

\* analyzeGLB(buffer) is called on the uploaded buffer
Analyze ==
    /\ glb # NoBuffer
    /\ analysis.status = "none"
    /\ analysis' = analyzeGLB(glb)
    /\ UNCHANGED <<glb, strategy, qvars, kvars>>

\* POST /compress/full goes on after analyzeGLB returned: the strategy is
\* selected, and replaced when the query says ignoreDraco=true
SelectStrategy(ignoreDraco) ==
    /\ glb # NoBuffer
    /\ analysis.status = "returned"
    /\ strategy.status = "none"
    /\ LET selected == getOptimalCompressionStrategy(analysis)
           final == IF ignoreDraco THEN ForcedStrategy(analysis) ELSE selected
       IN strategy' = [final EXCEPT !.ignoreDraco = ignoreDraco]
    /\ UNCHANGED <<glb, analysis, qvars, kvars>>

\* getOptimalCompressionStrategy is called on a GLBAnalysis value by itself
SelectFor(a) ==
    /\ analysis.status = "none"
    /\ glb' = NoBuffer
    /\ analysis' = a
    /\ strategy' = getOptimalCompressionStrategy(a)
    /\ UNCHANGED <<qvars, kvars>>

NextA ==
    \/ Analyze
    \/ \E ignoreDraco \in BOOLEAN : SelectStrategy(ignoreDraco)
    \/ \E a \in Analyses : SelectFor(a)

\* ---------------------------------------------------------- specifications

\* the admission controller, the module left alone
Init == InitQ /\ InitK /\ errorRun = ErrorRunCap /\ InitA

Spec == Init /\ [][NextQ]_vars

\* the same, with the timers of the event loop firing: an armed timer that
\* is not cleared does fire
SpecLive ==
    /\ Init /\ [][NextQ]_vars
    /\ \A r \in RequestIds : WF_vars(QueueTimeout(r))
    /\ \A r \in RequestIds : WF_vars(RequestTimeout(r))

\* the admission controller while configureEndpoint changes the policies
SpecConfig == Init /\ [][NextConfig]_vars

\* the admission controller with configureEndpoint and resetQueueStats
SpecAdmin == Init /\ [][NextAdmin]_vars

\* the single-flight queue and the module lifecycle, no request at the middleware
InitKtx ==
    /\ InitQ /\ config = [e \in Endpoints |-> ScenarioPolicy]
    /\ InitK /\ errorRun = ErrorRunCap /\ InitA

SpecKtx == InitKtx /\ [][NextK]_vars

\* the module lifecycle under a client that submits its items one after the
\* other (so the drain loop never finds a second item waiting), next to the
\* compressGLBTexturesKTX2 calls and the resets
SequentialItems == {1}

NextHealth ==
    \/ \E i \in SequentialItems : Add(i)
    \/ \E i \in SequentialItems : ItemTimeout(i)
    \/ \E g \in GlbCallers : GlbInvoke(g)
    \/ \E p \in Procs : PollWake(p)
    \/ \E p \in Procs : LoadSucceed(p)
    \/ \E p \in Procs : LoadFail(p)
    \/ \E p \in Procs, ok \in BOOLEAN : DecodeFinish(p, ok)
    \/ \E r \in Resetters : ResetFire(r)
    \/ \E r \in Resetters : ResetWake(r)
    \/ TickError
    \/ TickInitFailure

\* the runs of failed items are followed from the start
InitHealth ==
    /\ InitQ /\ config = [e \in Endpoints |-> ScenarioPolicy]
    /\ InitK /\ errorRun = 0 /\ InitA

SpecHealth == InitHealth /\ [][NextHealth]_vars

\* the single-flight queue on its own (no compressGLBTexturesKTX2 call), all
\* within one ERROR_RESET_INTERVAL and one INIT_FAILURE_COOLDOWN, with the
\* event loop's timers firing: the 30 s timer of an open race, the
\* processQueue timers, the reset's timers and its polling.  The module
\* creator is taken to settle; the rest of an item's work (waiting for
\* another initialization, loadImage, the native calls) may never finish.
NextDrain ==
    \/ \E i \in Items : Add(i)
    \/ DrainTimer
    \/ \E i \in Items : ItemTimeout(i)
    \/ \E p \in Items \cup Resetters : PollWake(p)
    \/ \E p \in Items \cup Resetters : LoadSucceed(p)
    \/ \E p \in Items \cup Resetters : LoadFail(p)
    \/ \E p \in Items, ok \in BOOLEAN : DecodeFinish(p, ok)
    \/ \E r \in Resetters : ResetFire(r)
    \/ \E r \in Resetters : ResetWake(r)

\* a step of the reset on its own timers, or the settling of the load it started
ResetStep ==
    \E r \in Resetters :
        ResetFire(r) \/ ResetWake(r) \/ LoadSucceed(r) \/ LoadFail(r)

SpecDrain ==
    /\ InitKtx /\ [][NextDrain]_vars
    /\ WF_vars(\E i \in Items : ItemTimeout(i))
    /\ WF_vars(DrainTimer)
    /\ WF_vars(ResetStep)
    /\ SF_vars(\E r \in Resetters : PollWake(r))
    /\ WF_vars(\E i \in Items : LoadSucceed(i) \/ LoadFail(i))

\* the analyzer and the strategy selection, one upload
InitAnalyzer ==
    /\ InitQ /\ config = [e \in Endpoints |-> ScenarioPolicy]
    /\ InitK /\ errorRun = ErrorRunCap
    /\ glb \in Inputs
    /\ analysis = NoAnalysis
    /\ strategy = NoStrategy

SpecAnalyzer == InitAnalyzer /\ [][NextA]_vars

\* ------------------------------------------------------- Part I: properties

\* position of r in q (0 when absent)
Pos(q, r) == IF \E i \in 1..Len(q) : q[i] = r
             THEN CHOOSE i \in 1..Len(q) : q[i] = r
             ELSE 0

InQueue(q, r) == Pos(q, r) # 0

RequestsOf(e, pcs) == {r \in RequestIds : req[r].endpoint = e /\ req[r].pc \in pcs}

\* C1: under a fixed policy the set of admitted and not yet released requests
\* of an endpoint never holds more than maxConcurrent requests.
C1_ActiveWithinMaxConcurrent ==
    \A e \in Endpoints : Cardinality(activeRequests[e]) <= config[e].maxConcurrent

\* the limit of two is reached, a request waits behind it and a slot has
\* already been released and refilled from the queue
C1_Witness ==
    \E e \in Endpoints :
        /\ config[e].maxConcurrent = 2
        /\ Cardinality(activeRequests[e]) = 2
        /\ queues[e] # <<>>
        /\ \E r \in activeRequests[e] : req[r].via = "queue"

C7_QueueWithinMaxQueueSize ==
    \A e \in Endpoints :
        /\ Len(queues[e]) <= config[e].maxQueueSize
        /\ stats[e].queued <= config[e].maxQueueSize

\* the queue of two is full and a further request was turned away
C7_Witness ==
    \E e \in Endpoints :
        /\ config[e].maxQueueSize = 2
        /\ Len(queues[e]) = 2
        /\ \E r \in RequestIds : req[r].endpoint = e /\ req[r].outcome = "QueueFull"

\* C8 (as claimed): the handlers of an endpoint that are still executing never
\* number more than maxConcurrent.
C8_ExecutingWithinMaxConcurrent ==
    \A e \in Endpoints :
        Cardinality(RequestsOf(e, {"processing", "timedOut"})) <= config[e].maxConcurrent

\* C8 (amended): the handlers still executing whose request timeout has not
\* fired never number more than maxConcurrent.
C8_ExecutingUntimedWithinMaxConcurrent ==
    \A e \in Endpoints :
        Cardinality(RequestsOf(e, {"processing"})) <= config[e].maxConcurrent

\* a handler outlived its request timeout and the slot it gave up is taken
C8_Witness ==
    \E e \in Endpoints :
        /\ RequestsOf(e, {"timedOut"}) # {}
        /\ Cardinality(RequestsOf(e, {"processing"})) = config[e].maxConcurrent

\* the step in which request r arrives at endpoint e
ArriveStep(e, r) == nextId = r /\ nextId' = r + 1 /\ req'[r].endpoint = e

\* policy {maxConcurrent 1, maxQueueSize 1}, three requests arrived together
ScenarioArrived(e) ==
    /\ config[e] = ScenarioPolicy
    /\ nextId > 3
    /\ \A r \in 1..3 : req[r].endpoint = e
    /\ stats[e].completed = 0 /\ stats[e].failed = 0
    /\ \A r \in 1..3 : req[r].outcome # "QueueTimeout" /\ req[r].pc # "timedOut"

\* C9: an arrival that finds the active set at maxConcurrent and the queue at
\* maxQueueSize fails at once with QueueFull, counts one rejection and leaves
\* the active set and the queue alone; with policy {1, 1} and three requests
\* arriving together the first is processed, the second waits and is processed
\* when the first completes, the third is rejected with QueueFull.
C9_QueueFullRejects ==
    [][\A e \in Endpoints :
          /\ \A r \in RequestIds :
                (/\ ArriveStep(e, r)
                 /\ Cardinality(activeRequests[e]) >= config[e].maxConcurrent
                 /\ Len(queues[e]) >= config[e].maxQueueSize)
                    => /\ req'[r].pc = "done" /\ req'[r].outcome = "QueueFull"
                       /\ stats'[e] = [stats[e] EXCEPT !.rejected = @ + 1]
                       /\ activeRequests' = activeRequests
                       /\ queues' = queues
                       /\ requestStartTimes' = requestStartTimes
          /\ ScenarioArrived(e)' =>
                /\ req'[1].pc = "processing" /\ req'[1].via = "immediate"
                /\ req'[2].pc = "queued" /\ queues'[e] = <<2>>
                /\ req'[3].outcome = "QueueFull"
          /\ (ScenarioArrived(e) /\ req'[1].pc = "done") =>
                /\ req'[2].pc = "processing" /\ req'[2].via = "queue"
                /\ activeRequests'[e] = {2}
      ]_qvars

\* the scenario ran to the end: first done, second admitted from the queue,
\* third rejected because the queue was full
C9_Witness ==
    \E e \in Endpoints :
        /\ config[e] = ScenarioPolicy
        /\ \A r \in 1..3 : req[r].endpoint = e
        /\ req[1].outcome = "response"
        /\ req[2].via = "queue" /\ req[2].pc = "processing"
        /\ req[3].outcome = "QueueFull"
        /\ stats[e].rejected = 1

\* C10: when the queue timer of a waiting request fires, the entry leaves the
\* queue (the others stay, in order), one rejection is counted, the caller
\* fails with QueueTimeout and the active set is not changed.
C10_QueueTimeoutRejects ==
    [][\A r \in RequestIds :
          (req[r].pc = "queued" /\ req'[r].pc = "done") =>
              LET e == req[r].endpoint
              IN /\ req'[r].outcome = "QueueTimeout"
                 /\ queues'[e] = SelectSeq(queues[e], LAMBDA x : x # r)
                 /\ stats'[e].rejected = stats[e].rejected + 1
                 /\ stats'[e].queued = Len(queues[e]) - 1
                 /\ activeRequests' = activeRequests
                 /\ stats'[e].active = stats[e].active
                 /\ requestStartTimes' = requestStartTimes
      ]_qvars

\* a waiting request that was not at the head timed out behind an active one
C10_Witness ==
    \E e \in Endpoints : \E r, h \in RequestIds :
        /\ req[r].endpoint = e /\ req[r].outcome = "QueueTimeout"
        /\ h < r /\ InQueue(queues[e], h)
        /\ activeRequests[e] # {}

\* r waits in the queue of its endpoint
Waiting(r) == req[r].pc = "queued"

\* r was rejected by its queue timer
TimedOutInQueue(r) == req[r].outcome = "QueueTimeout"

\* C11: a request placed in a queue is resolved exactly once and does not wait
\* forever: it leaves the queue either admitted (popped into the active set,
\* its timer cleared) or rejected by its queue timer (out of the queue, not in
\* the active set); once it has left it never waits again, a request rejected
\* by its timer is never admitted nor active, a request admitted from the
\* queue is never rejected by the queue timer, and every waiting request
\* eventually stops waiting.
C11_QueuedResolvedOnce ==
    /\ [][\A r \in RequestIds :
             /\ (Waiting(r) /\ ~Waiting(r)') =>
                   LET e == req[r].endpoint
                   IN /\ ~InQueue(queues'[e], r)
                      /\ \/ /\ req'[r].pc = "processing" /\ req'[r].via = "queue"
                            /\ r \in activeRequests'[e]
                            /\ ~QueueTimerArmed(r)'
                            /\ ~TimedOutInQueue(r)'
                         \/ /\ req'[r].pc = "done" /\ TimedOutInQueue(r)'
                            /\ r \notin activeRequests'[e]
                            /\ req'[r].via = "none"
             /\ (req[r].pc \notin {"idle", "queued"}) => ~Waiting(r)'
             /\ TimedOutInQueue(r) =>
                   /\ TimedOutInQueue(r)' /\ req'[r].pc = "done"
                   /\ req'[r].via = "none"
                   /\ \A e \in Endpoints :
                         r \notin activeRequests'[e] /\ ~InQueue(queues'[e], r)
             /\ (req[r].via = "queue") => (req'[r].via = "queue" /\ ~TimedOutInQueue(r)')
       ]_vars
    /\ \A r \in RequestIds : Waiting(r) ~> ~Waiting(r)

\* one request left the queue admitted and holds the slot, another left it
\* rejected by its timer, and a third is still waiting
C11_Witness ==
    \E a, b, c \in RequestIds :
        /\ req[a].via = "queue" /\ req[a].pc = "processing"
        /\ TimedOutInQueue(b)
        /\ Waiting(c)

\* r holds a slot of its endpoint
Active(r) == \E e \in Endpoints : r \in activeRequests[e]

\* C12: the slot of an admitted request is released even if its handler never
\* finishes: when its requestTimeout timer fires the request leaves the active
\* set, failed goes up by one (completed does not move), the head of the
\* queue, if there is one, is admitted into the freed slot, and every request
\* in the active set eventually leaves it.
C12_SlotReleasedOnTimeout ==
    /\ [][\A r \in RequestIds :
             (req[r].pc = "processing" /\ req'[r].pc = "timedOut") =>
                 LET e == req[r].endpoint
                 IN /\ r \in activeRequests[e] /\ r \notin activeRequests'[e]
                    /\ stats'[e].failed = stats[e].failed + 1
                    /\ stats'[e].completed = stats[e].completed
                    /\ IF queues[e] = <<>>
                       THEN /\ activeRequests'[e] = activeRequests[e] \ {r}
                            /\ queues'[e] = <<>>
                       ELSE /\ activeRequests'[e] =
                                  (activeRequests[e] \ {r}) \cup {Head(queues[e])}
                            /\ queues'[e] = Tail(queues[e])
                            /\ req'[Head(queues[e])].pc = "processing"
                    /\ stats'[e].active = Cardinality(activeRequests'[e])
       ]_vars
    /\ \A r \in RequestIds : Active(r) ~> ~Active(r)

\* a handler is still running after its timer released its slot with one
\* failure counted, and the request that waited behind it took the slot
C12_Witness ==
    \E e \in Endpoints : \E r, n \in RequestIds :
        /\ req[r].endpoint = e /\ req[r].pc = "timedOut"
        /\ stats[e].failed = 1 /\ stats[e].completed = 0
        /\ req[n].via = "queue" /\ n \in activeRequests[e]

\* C13: when the requestTimeout timer of an admitted request fires, its
\* caller receives a RequestTimeout failure: the middleware invocation ends
\* there with that outcome, and the result the handler produces later is not
\* what the caller receives.
C13_RequestTimeoutSurfaced ==
    [][\A r \in RequestIds :
          /\ RequestTimeout(r) =>
                req'[r].pc = "done" /\ req'[r].outcome = "RequestTimeout"
          /\ (req[r].pc = "timedOut") =>
                req'[r].outcome \notin {"response", "handlerError"}
      ]_vars

\* ------------------------------------------------------ Part II: properties

\* the calls of compressImageToKTX2Internal that were entered and have not returned
Executing == {p \in Items \cup GlbCallers : work[p] # "none"}

\* C2: no two work items submitted through KTX2RequestQueue.add are executing
\* (started and not yet finished) at the same time.
C2_OneItemExecuting ==
    Cardinality(Executing \cap Items) <= 1

\* C3: every call of compressImageToKTX2Internal in progress was made by the
\* drain loop for the item whose race is still open, so at most one is in
\* progress process-wide.
C3_NativeOnlyFromDrainLoop ==
    /\ \A p \in Executing : p \in Items /\ item[p] = "pending"
    /\ Cardinality(Executing) <= 1

\* C4: at most one execution of the load-and-validate sequence of
\* initKtxModule is in progress.
C4_OneLoadInFlight ==
    Cardinality({p \in Procs : work[p] = "loading"}) <= 1

\* C5: once MAX_INIT_FAILURES load attempts in a row have failed and the module
\* is not ready, the counter is at the threshold, and a call of initKtxModule
\* (by any process able to make one) made less than INIT_FAILURE_COOLDOWN after
\* the last failure throws at the guard and starts nothing, while a call made
\* once the cooldown has elapsed clears the counter and starts a load attempt.
C5_CircuitBreaker ==
    (failStreak >= MAX_INIT_FAILURES /\ ~(ktxInitialized /\ ktx # "null")) =>
        /\ initFailureCount >= MAX_INIT_FAILURES
        /\ \A p \in Procs :
              work[p] = "none" =>
                  LET t == initKtxModule(K, p)
                  IN IF sinceInitFailure < MaxInitFailureAge
                     THEN /\ t.ret = "throw"
                          /\ t.isInitializing = isInitializing
                          /\ t.work = work
                          /\ t.initFailureCount = initFailureCount
                          /\ t.ktx = ktx /\ t.ktxInitialized = ktxInitialized
                     ELSE /\ t.ret = "suspend"
                          /\ t.initFailureCount = 0
                          /\ ~isInitializing /\ t.isInitializing
                          /\ t.work = [work EXCEPT ![p] = "loading"]

\* the breaker turned a call away during the cooldown and, the cooldown over,
\* a later call cleared the counter and is now loading the module
C5_Witness ==
    /\ breakerLog = "rejectedThenRetried"
    /\ initFailureCount = 0
    /\ isInitializing
    /\ \E p \in Procs : work[p] = "loading"


C15_FifoStart ==
    [][\A i \in Items :
          /\ (item[i] = "idle" /\ queue # <<>> /\ item'[i] # "idle") =>
                /\ item'[i] = "queued"
                /\ queue' # <<>> /\ queue'[Len(queue')] = i
          /\ (InQueue(queue, i) /\ ~InQueue(queue', i)) =>
                /\ i = Head(queue)
                /\ item'[i] # "queued"
          /\ \A j \in Items :
                (/\ InQueue(queue, i) /\ InQueue(queue, j)
                 /\ Pos(queue, i) < Pos(queue, j)
                 /\ InQueue(queue', i) /\ InQueue(queue', j))
                    => Pos(queue', i) < Pos(queue', j)
          /\ (item'[i] = "queued") <=> InQueue(queue', i)
      ]_vars

\* an item was submitted while the processQueue timer of the previous item's
\* end was pending: the item that waited was started, the new one waits
C15_Witness ==
    \E i, j \in Items :
        /\ i # j
        /\ drainTimers > 0 /\ processing
        /\ item[j] = "pending" /\ item[i] = "queued" /\ queue = <<i>>


\* C16: the failure that brings consecutiveErrors to MAX_CONSECUTIVE_ERRORS
\* schedules one module reset and leaves the counter at zero, the failures
\* below the threshold schedule none: in a run of failed items, each within
\* ERROR_RESET_INTERVAL of the one before, one reset has been scheduled per
\* MAX_CONSECUTIVE_ERRORS failures, so that a run of five has scheduled
\* exactly one.
C16_OneResetPerThreshold ==
    /\ consecutiveErrors < MAX_CONSECUTIVE_ERRORS
    /\ errorRun < ErrorRunCap =>
          /\ runResets = errorRun \div MAX_CONSECUTIVE_ERRORS
          /\ consecutiveErrors = errorRun % MAX_CONSECUTIVE_ERRORS
    /\ errorRun = 5 => runResets = 1

\* five items failed in a row within the interval: one reset was scheduled
\* at the third, the counter restarted and stands at two
C16_Witness ==
    /\ errorRun = 5
    /\ runResets = 1
    /\ consecutiveErrors = 2
    /\ sinceError = 0


\* ----------------------------------------------------- Part III: properties
\* analyzeGLB has run on the uploaded buffer
Analyzed == glb # NoBuffer /\ analysis.status # "none"

\* C17: analyzeGLB returns a GLBAnalysis for every buffer and never throws,
\* and a buffer parseGLBToJSON cannot read yields isValid=false with nothing
\* detected.
C17_AnalyzeTotal ==
    Analyzed =>
        /\ analysis.status = "returned"
        /\ parseGLBToJSON(glb) = JsonNull => analysis = InvalidAnalysis(glb)

\* one of the four header checks of parseGLBToJSON fails
HeaderFault(b) ==
    \/ b.magic # GLB_MAGIC
    \/ b.version # GLB_VERSION
    \/ b.length # b.size
    \/ b.chunkType # GLB_CHUNK_TYPE_JSON

\* C18: a buffer whose magic, version, total length or first chunk type is
\* wrong is analyzed as isValid=false with every flag false, every count 0
\* and both extension lists empty.
C18_HeaderMismatchInvalid ==
    Analyzed /\ HeaderFault(glb) =>
        /\ analysis.status = "returned"
        /\ ~analysis.isValid
        /\ ~analysis.hasTextures /\ ~analysis.hasMeshes
        /\ analysis.hasAnimations = "false" /\ ~analysis.hasDracoCompression
        /\ analysis.textureCount = 0 /\ analysis.meshCount = 0
        /\ analysis.nodeCount = 0
        /\ analysis.extensionsUsed = EmptyArray
        /\ analysis.extensionsRequired = EmptyArray

\* a full-size container with a whole scene in its JSON chunk, wrong only in
\* the total length of its header, was analyzed as invalid
C18_Witness ==
    /\ Analyzed
    /\ glb.magic = GLB_MAGIC /\ glb.version = GLB_VERSION
    /\ glb.chunkType = GLB_CHUNK_TYPE_JSON
    /\ glb.size = HeaderBytes + 2 * ChunkHeaderBytes /\ glb.length # glb.size
    /\ glb.payload = SampleScene
    /\ analysis = InvalidAnalysis(glb)

\* the JSON has the shape the glTF schema gives it: the extension lists are
\* arrays, meshes is an array of objects, primitives an array of objects, and
\* an extension's value is an object
WellTyped(g) ==
    /\ g.kind = "object"
    /\ g.extensionsUsed.kind # "nonArray" /\ g.extensionsRequired.kind # "nonArray"
    /\ g.meshes.kind # "number"
    /\ \A k \in 1..Len(g.meshes.entries) :
          LET mesh == g.meshes.entries[k]
          IN /\ mesh.kind = "object"
             /\ mesh.primitives = "array"
             /\ \A j \in 1..Len(mesh.items) : mesh.items[j] \in {"plain", "draco"}

StructurallyValid(b) == ~HeaderFault(b) /\ WellTyped(parseGLBToJSON(b))

OnPrimitive(g) ==
    \E k \in 1..Len(g.meshes.entries) :
        \E j \in 1..Len(g.meshes.entries[k].items) :
            g.meshes.entries[k].items[j] = "draco"

\* C19: for a structurally valid GLB, hasDracoCompression is true exactly
\* when KHR_draco_mesh_compression is in extensionsUsed, in extensionsRequired
\* or in the extensions of some primitive of some mesh.
C19_DracoDetected ==
    Analyzed /\ StructurallyValid(glb) =>
        /\ analysis.status = "returned" /\ analysis.isValid
        /\ analysis.hasDracoCompression <=>
              \/ DRACO \in glb.payload.extensionsUsed.names
              \/ DRACO \in glb.payload.extensionsRequired.names
              \/ OnPrimitive(glb.payload)

\* the extension is carried by a primitive of the second mesh only, neither
\* list declares it, and the analysis reports Draco
C19_Witness ==
    /\ Analyzed /\ StructurallyValid(glb)
    /\ DRACO \notin glb.payload.extensionsUsed.names
    /\ DRACO \notin glb.payload.extensionsRequired.names
    /\ Len(glb.payload.meshes.entries) = 2
    /\ glb.payload.meshes.entries[1].items = <<"plain">>
    /\ glb.payload.meshes.entries[2].items = <<"plain", "draco">>
    /\ analysis.hasDracoCompression

\* C20: the selected strategy compresses nothing for an invalid analysis;
\* without the override it compresses the textures only of a Draco file with
\* textures, nothing of a Draco file without textures, and otherwise the
\* meshes if there are meshes and the textures if there are textures; with
\* ignoreDraco=true it compresses the meshes if there are meshes and the
\* textures if there are textures, whatever the Draco flag.
C20_StrategyTable ==
    strategy.status = "selected" =>
        LET a == analysis
            mesh == strategy.shouldCompressMesh
            textures == strategy.shouldCompressTextures
        IN IF ~a.isValid THEN ~mesh /\ ~textures
           ELSE IF ~strategy.ignoreDraco /\ a.hasDracoCompression
           THEN ~mesh /\ (textures <=> a.hasTextures)
           ELSE (mesh <=> a.hasMeshes) /\ (textures <=> a.hasTextures)

\* a Draco file with meshes and textures, uploaded with ignoreDraco=true: both
\* passes were selected
C20_Witness ==
    /\ Analyzed /\ analysis.isValid
    /\ analysis.hasDracoCompression /\ analysis.hasMeshes /\ analysis.hasTextures
    /\ strategy.status = "selected" /\ strategy.ignoreDraco
    /\ strategy.shouldCompressMesh /\ strategy.shouldCompressTextures


\* ------------------------------------------- Part I: properties, continued

\* a call of completeRequest on endpoint e has just returned: a request timer
\* fired or a handler settled
CompleteStep(e) ==
    \E r \in RequestIds :
        /\ req[r].endpoint = e
        /\ \/ RequestTimeout(r)
           \/ \E success \in BOOLEAN : HandlerDone(r, success)

\* C21: when completeRequest returns, the queue of the endpoint is empty or
\* its active set holds at least maxConcurrent requests, also after
\* configureEndpoint changed the policy while requests were waiting.
C21_CompleteDrainsQueue ==
    [][\A e \in Endpoints :
          CompleteStep(e) =>
              \/ queues'[e] = <<>>
              \/ Cardinality(activeRequests'[e]) >= config'[e].maxConcurrent]_vars

\* requests that called enqueueRequest so far
Submitted(e) == Cardinality({r \in RequestIds : req[r].endpoint = e})

Accounted(e) ==
    Cardinality(activeRequests[e]) + Len(queues[e])
        + stats[e].completed + stats[e].failed + stats[e].rejected

\* C25: without resetStats, the requests submitted to an endpoint are those
\* in its active set, those in its queue, and those counted as completed,
\* failed or rejected, each once; the completeRequest that follows a request
\* timeout changes no counter and takes no request out of the active set.
C25_EveryRequestAccounted ==
    /\ [](\A e \in Endpoints : Submitted(e) = Accounted(e))
    /\ [][\A r \in RequestIds :
             (req[r].pc = "timedOut" /\ req'[r].pc = "done") =>
                 LET e == req[r].endpoint
                 IN /\ stats'[e].completed = stats[e].completed
                    /\ stats'[e].failed = stats[e].failed
                    /\ stats'[e].rejected = stats[e].rejected
                    /\ activeRequests[e] \subseteq activeRequests'[e]]_vars

\* a request timed out and its handler finished afterwards: it is counted
\* as failed, once, next to a completed and a rejected request
C25_Witness ==
    \E e \in Endpoints, r \in RequestIds :
        /\ req[r].endpoint = e /\ req[r].pc = "done"
        /\ req[r].outcome \in {"response", "handlerError"}
        /\ r \notin requestStartTimes
        /\ stats[e].failed = 1 /\ stats[e].completed = 0
        /\ stats[e].rejected = 1
        /\ Submitted(e) = 3 /\ Cardinality(activeRequests[e]) = 1

\* C26: under a fixed policy, while a request waits in the queue of an
\* endpoint the active set holds maxConcurrent requests, and a request that
\* arrives then is not admitted at once.
C26_NoOvertaking ==
    /\ [](\A e \in Endpoints :
             queues[e] # <<>> =>
                 Cardinality(activeRequests[e]) = config[e].maxConcurrent)
    /\ [][\A e \in Endpoints :
             (Arrive(e) /\ queues[e] # <<>>) => req'[nextId].via # "immediate"]_vars

\* a request arrived while another one waited: it waits behind it
C26_Witness ==
    \E e \in Endpoints :
        /\ Len(queues[e]) = 2
        /\ Cardinality(activeRequests[e]) = config[e].maxConcurrent

\* C29: the active and queued figures of an endpoint's stats are the size of
\* its active set and the length of its queue.
C29_StatsMatchSets ==
    \A e \in Endpoints :
        /\ stats[e].active = Cardinality(activeRequests[e])
        /\ stats[e].queued = Len(queues[e])


\* ------------------------------------------ Part II: properties, continued

\* C22: the init-failure counter is at MAX_INIT_FAILURES only when the last
\* MAX_INIT_FAILURES load attempts all failed: a successful load in between
\* starts the count again.
C22_CountsConsecutiveFailures ==
    initFailureCount >= MAX_INIT_FAILURES => failStreak >= MAX_INIT_FAILURES

\* a call of initKtxModule by p finds isInitializing set and starts to wait
WaitBegins(p) == work[p] # "waitInit" /\ work'[p] = "waitInit"

\* the wait of p ends
WaitEnds(p) == work[p] = "waitInit" /\ work'[p] # "waitInit"

\* the step starts no load and leaves the init-failure counter and its
\* timestamp alone
NoAttempt ==
    /\ \A q \in Procs : work'[q] = "loading" => work[q] = "loading"
    /\ initFailureCount' = initFailureCount
    /\ sinceInitFailure' = sinceInitFailure

\* p goes on if the module is ready and fails otherwise
WaitResult(p) ==
    IF ktxInitialized /\ ktx # "null"
    THEN work'[p] = IF p \in Resetters THEN "none" ELSE "decoding"
    ELSE work'[p] = "none"

ItemFailed == \E i \in Items : ItemTimeout(i)

\* a successful item: its call returned with the race still open
ItemSucceeded ==
    \E i \in Items : item[i] = "pending" /\ ktx # "null" /\ DecodeFinish(i, TRUE)

\* C24 as stated: handleCompressionError sets the counter to zero when more
\* than ERROR_RESET_INTERVAL passed since the last error and adds one to it
\* otherwise; a successful item sets it to zero.
C24_ResetInsteadOfIncrement ==
    [][/\ ItemFailed =>
             consecutiveErrors' =
                 IF sinceError * ERROR_RESET_INTERVAL > ERROR_RESET_INTERVAL
                 THEN 0 ELSE consecutiveErrors + 1
       /\ ItemSucceeded => consecutiveErrors' = 0]_vars

\* C24 amended: handleCompressionError counts the error as the first of a
\* new run (counter 1) when more than ERROR_RESET_INTERVAL passed since the
\* last error and adds one to the counter otherwise; a counter that reaches
\* MAX_CONSECUTIVE_ERRORS is set to zero at once; a successful item sets it
\* to zero.
C24_RestartOrIncrement ==
    [][/\ ItemFailed =>
             LET counted == IF sinceError * ERROR_RESET_INTERVAL > ERROR_RESET_INTERVAL
                            THEN 1 ELSE consecutiveErrors + 1
             IN /\ consecutiveErrors' =
                       IF counted >= MAX_CONSECUTIVE_ERRORS THEN 0 ELSE counted
                /\ sinceError' = 0
       /\ ItemSucceeded => consecutiveErrors' = 0]_vars

\* an item failed with no error in the ERROR_RESET_INTERVAL before it: the
\* counter stands at one, not at zero
C24_Witness ==
    /\ errorRun = 1
    /\ consecutiveErrors = 1
    /\ sinceError = 0
    /\ runResets = 0
    /\ failStreak = 0 /\ ktx # "null"

\* C27: resetKTXModule does not clear the handle while a call that passed
\* the validation of the handle has not finished its native calls.
C27_ResetSparesRunningCalls ==
    [][\A r \in Resetters :
          ResetFire(r) => \A p \in Procs : work[p] # "decoding"]_vars

\* the circuit breaker is open
BreakerOpen ==
    /\ ~(ktxInitialized /\ ktx # "null")
    /\ initFailureCount >= MAX_INIT_FAILURES
    /\ sinceInitFailure < MaxInitFailureAge

\* a step that calls initKtxModule
InitCall ==
    \/ \E i \in Items : Add(i)
    \/ DrainTimer
    \/ \E g \in GlbCallers : GlbInvoke(g)
    \/ \E r \in Resetters : ResetWake(r)

\* C28: a call of initKtxModule turned away by the open circuit breaker
\* leaves the handle, the two flags, the init-failure counter and its
\* timestamp as they were, and starts nothing.
C28_RejectionChangesNothing ==
    [][(BreakerOpen /\ InitCall) =>
          /\ UNCHANGED <<ktx, ktxInitialized, isInitializing,
                         initFailureCount, sinceInitFailure>>
          /\ \A p \in Procs : work'[p] \in {"loading", "waitInit"} => work'[p] = work[p]]_vars

\* a call was turned away and the timestamp of the last failure kept ageing
C28_Witness ==
    /\ breakerLog = "rejected"
    /\ initFailureCount = MAX_INIT_FAILURES
    /\ sinceInitFailure = MaxInitFailureAge - 1
    /\ ktx = "null" /\ ~isInitializing

\* C30: between two steps, ktxInitialized is set exactly when ktx holds a
\* module.
C30_InitializedIffHandle ==
    ktxInitialized <=> ktx # "null"

\* a load failed while a call that had found the module ready was still
\* running: handle and flag went together
C30_Witness ==
    /\ ktx = "null" /\ ~ktxInitialized
    /\ failStreak > 0
    /\ \E p \in Procs : work[p] = "decoding"

====
